---- MODULE Spec2Model ----
(***************************************************************************)
(* Staging path security guard of the SNAP MCP server:                     *)
(*   app/mcp/security.py  validators and get_safe_staging_path             *)
(*   app/mcp/tools.py     the staging tool handlers                        *)
(*                                                                         *)
(* A Python str is a sequence of one-character strings; a filesystem path  *)
(* is a sequence of path components, each component being such a str.      *)
(***************************************************************************)
EXTENDS Integers, Sequences, FiniteSets, TLC

VARIABLES
    ignore_patterns, \* value of IGNORE_PATTERNS in this deployment
    input,        \* raw filename handed to validate_filename
    first,        \* outcome of validate_filename(input)
    second,       \* outcome of validate_filename on the value of `first`
    fs,           \* the filesystem: absolute path -> node
    loop_raises,  \* TRUE: Path.resolve() raises RuntimeError on a symlink loop
    pc,           \* position of handle_upload_to_staging
    req,          \* arguments of the upload call in progress
    safe_path,    \* value returned by get_safe_staging_path in the upload
    nbytes,       \* len(file_content) after decoding
    response,     \* outcome of the last tool call
    syscalls,     \* filesystem calls of the last tool call
    made,         \* what the upload call has created so far
    written       \* where the last upload put its bytes

vars == <<ignore_patterns, input, first, second, fs, loop_raises, pc, req, safe_path, nbytes,
          response, syscalls, made, written>>

guard_vars == <<ignore_patterns, input, first, second>>
tool_vars == <<fs, loop_raises, pc, req, safe_path, nbytes, response,
               syscalls, made, written>>

-----------------------------------------------------------------------------
(* Bounds of the model *)

\* longest enumerated raw filename
MaxLen == 4
\* most symbolic links the environment places in the tree
MaxLinks == 1
\* settings.limits.max_code_file_bytes, scaled down
MaxCodeFileBytes == 2

-----------------------------------------------------------------------------
(* Characters and str methods *)

LowerLetters ==
    <<"a","b","c","d","e","f","g","h","i","j","k","l","m",
      "n","o","p","q","r","s","t","u","v","w","x","y","z">>
UpperLetters ==
    <<"A","B","C","D","E","F","G","H","I","J","K","L","M",
      "N","O","P","Q","R","S","T","U","V","W","X","Y","Z">>
Digits == {"0","1","2","3","4","5","6","7","8","9"}
Alnum == {LowerLetters[i] : i \in 1..26} \cup {UpperLetters[i] : i \in 1..26} \cup Digits

\* the character U+0000
NulByte == "\\x00"

\* characters removed by str.strip() that the model's inputs use
Whitespace == {" ", "\t", "\n", "\r", "\f"}

Lower(c) ==
    IF \E i \in 1..26 : UpperLetters[i] = c
    THEN LowerLetters[CHOOSE i \in 1..26 : UpperLetters[i] = c]
    ELSE c

str_lower(s) == [i \in 1..Len(s) |-> Lower(s[i])]

RECURSIVE str_lstrip(_, _)
str_lstrip(s, chars) ==
    IF Len(s) > 0 /\ Head(s) \in chars THEN str_lstrip(Tail(s), chars) ELSE s

RECURSIVE str_rstrip(_, _)
str_rstrip(s, chars) ==
    IF Len(s) > 0 /\ s[Len(s)] \in chars
    THEN str_rstrip(SubSeq(s, 1, Len(s) - 1), chars)
    ELSE s

str_strip(s, chars) == str_rstrip(str_lstrip(s, chars), chars)

str_replace(s, old, new) == [i \in 1..Len(s) |-> IF s[i] = old THEN new ELSE s[i]]

str_contains(s, pat) ==
    \E i \in 1..(Len(s) - Len(pat) + 1) : SubSeq(s, i, i + Len(pat) - 1) = pat

str_startswith(s, c) == Len(s) > 0 /\ s[1] = c

RECURSIVE str_split(_, _)
str_split(s, sep) ==
    IF \A i \in 1..Len(s) : s[i] # sep
    THEN <<s>>
    ELSE LET k == CHOOSE i \in 1..Len(s) :
                      s[i] = sep /\ \A j \in 1..(i - 1) : s[j] # sep
         IN  <<SubSeq(s, 1, k - 1)>> \o str_split(SubSeq(s, k + 1, Len(s)), sep)

\* fnmatch.fnmatch on a POSIX host: shell glob with * and ?, whole-string match
RECURSIVE fnmatch(_, _)
fnmatch(name, pat) ==
    IF Len(pat) = 0 THEN Len(name) = 0
    ELSE IF Head(pat) = "*"
         THEN fnmatch(name, Tail(pat))
              \/ (Len(name) > 0 /\ fnmatch(Tail(name), pat))
    ELSE IF Head(pat) = "?"
         THEN Len(name) > 0 /\ fnmatch(Tail(name), Tail(pat))
    ELSE Len(name) > 0 /\ Head(name) = Head(pat)
         /\ fnmatch(Tail(name), Tail(pat))

-----------------------------------------------------------------------------
(* Outcomes: a returned value or the exception raised *)

Returned(v) == [kind |-> "ok", value |-> v, rule |-> "none"]
Raised(class, rule) == [kind |-> class, value |-> <<>>, rule |-> rule]
NoResult == [kind |-> "none", value |-> <<>>, rule |-> "none"]
\* an exception whose message quotes `detail` after the rule it names
RaisedWith(class, rule, detail) == [kind |-> class, value |-> detail, rule |-> rule]

-----------------------------------------------------------------------------
(* security.py constants *)

\* {0,254} after the first character
VALID_FILENAME_MAX == 255
FilenameFirst == Alnum \cup {".", "_", "-"}
FilenameRest == Alnum \cup {".", "_", "/", "-"}

FullMatchFilename(s) ==
    /\ Len(s) >= 1
    /\ Len(s) <= VALID_FILENAME_MAX
    /\ s[1] \in FilenameFirst
    /\ \A i \in 2..Len(s) : s[i] \in FilenameRest

\* re.match with a pattern ending in $: $ also matches before one final newline
VALID_FILENAME(s) ==
    \/ FullMatchFilename(s)
    \/ /\ Len(s) >= 2
       /\ s[Len(s)] = "\n"
       /\ FullMatchFilename(SubSeq(s, 1, Len(s) - 1))

FORBIDDEN_PATTERNS ==
    << <<".", ".">>, <<NulByte>>, <<"~">>, <<":">>, <<"*">>, <<"?">>,
       <<"\"">>, <<"<">>, <<">">>, <<"|">> >>

RESERVED_NAMES ==
    { <<"c","o","n">>, <<"p","r","n">>, <<"a","u","x">>, <<"n","u","l">> }
    \cup { <<"c","o","m",d>> : d \in Digits \ {"0"} }
    \cup { <<"l","p","t",d>> : d \in Digits \ {"0"} }

\* app.ingest.local_loader.IGNORE_PATTERNS: secret and credential globs
IGNORE_PATTERNS ==
    << <<".","e","n","v">>, <<"i","d","_","r","s","a">>, <<"*",".","p","e","m">> >>

-----------------------------------------------------------------------------
(* security.py: validate_filename *)

\* pattern sets the deployments of the model are configured with
IgnorePatternSets ==
    { IGNORE_PATTERNS, <<>>, << <<"a">> >>, << <<"*","/","a">> >>,
      << <<"?",".">>, <<"a","a","*">> >> }

_matches_ignore_pattern_final_only(filename) ==
    LET parts == str_split(filename, "/")
        name == parts[Len(parts)]
    IN  \E k \in 1..Len(ignore_patterns) :
            \/ fnmatch(filename, ignore_patterns[k])
            \/ fnmatch(name, ignore_patterns[k])

_matches_ignore_pattern(filename) ==
    LET parts == str_split(filename, "/")
        name == parts[Len(parts)]
    IN  \E k \in 1..Len(ignore_patterns) :
            \/ \E i \in 1..Len(parts) : fnmatch(parts[i], ignore_patterns[k])
            \/ fnmatch(filename, ignore_patterns[k])
            \/ fnmatch(name, ignore_patterns[k])

DOT_ALLOWLIST ==
    { <<".","g","i","t","i","g","n","o","r","e">>,
      <<".","g","i","t","a","t","t","r","i","b","u","t","e","s">> }

\* the loop body without its check of names that start with a dot
PartRuleNoHidden(part) ==
    IF Len(part) = 0 THEN "Empty path component in filename"
    ELSE IF str_lower(part) \in RESERVED_NAMES THEN "Reserved name in path"
    ELSE "none"

\* the body of the loop over filename.split('/'): the raise it ends in, if any
PartRule(part) ==
    IF Len(part) = 0 THEN "Empty path component in filename"
    ELSE IF str_lower(part) \in RESERVED_NAMES THEN "Reserved name in path"
    ELSE IF /\ str_startswith(part, ".")
            /\ part \notin DOT_ALLOWLIST
            /\ ~ str_contains(Tail(part), <<".">>)
         THEN "Hidden directory not allowed"
    ELSE "none"

NormalizeFilename(filename) ==
    str_strip(str_replace(str_strip(filename, Whitespace), "\\", "/"), {"/"})

ForbiddenPatternWrongClass(filename) ==
    Raised("ValidationError", "Forbidden pattern in filename")

ForbiddenPatternError(filename) ==
    Raised("SecurityError", "Forbidden pattern in filename")

ForbiddenHitNoDotDot(filename) ==
    \E k \in 2..Len(FORBIDDEN_PATTERNS) : str_contains(filename, FORBIDDEN_PATTERNS[k])

ForbiddenHit(filename) ==
    \E k \in 1..Len(FORBIDDEN_PATTERNS) : str_contains(filename, FORBIDDEN_PATTERNS[k])

validate_filename(raw) ==
    IF Len(raw) = 0 THEN Raised("ValidationError", "filename is required")
    ELSE LET filename == NormalizeFilename(raw)
             parts == str_split(filename, "/")
         IN  IF Len(filename) = 0
             THEN Raised("ValidationError", "filename cannot be empty after normalization")
             ELSE IF ForbiddenHit(filename) THEN ForbiddenPatternError(filename)
             ELSE IF ~ VALID_FILENAME(filename)
                  THEN Raised("ValidationError", "Invalid filename format")
             ELSE IF \E i \in 1..Len(parts) : PartRule(parts[i]) # "none"
                  THEN LET i == CHOOSE i \in 1..Len(parts) :
                                   /\ PartRule(parts[i]) # "none"
                                   /\ \A j \in 1..(i - 1) : PartRule(parts[j]) = "none"
                       IN  Raised("ValidationError", PartRule(parts[i]))
             ELSE IF _matches_ignore_pattern(filename)
                  THEN Raised("ValidationError", "File matches ignore pattern")
             ELSE Returned(filename)

-----------------------------------------------------------------------------
(* Raw filenames the guard is exercised on *)

FilenameAlphabet == {"a", ".", "/", "\\", " ", "\n", "~", NulByte}

RECURSIVE StringsUpTo(_, _)
StringsUpTo(alphabet, n) ==
    IF n = 0 THEN {<<>>}
    ELSE LET shorter == StringsUpTo(alphabet, n - 1)
         IN  shorter \cup {Append(s, c) : s \in shorter, c \in alphabet}

FilenameCorpus ==
    { <<".",".","/",".",".","/","e","t","c","/","p","a","s","s","w","d">>,
      <<"a","/",".",".","/",".",".","/","b">>,
      <<".",".","\\",".",".","\\","w","i","n","d","o","w","s","\\",
        "s","y","s","t","e","m","3","2","\\","x">>,
      <<"c","o","n">>,
      <<"C","O","M","1",".","t","x","t">>,
      <<"s","r","c","/","N","u","l">>,
      <<"l","p","t","9","/","x">>,
      <<".","e","n","v">>,
      <<"i","d","_","r","s","a">>,
      <<"s","e","c","r","e","t",".","p","e","m">>,
      <<"m","a","i","n",".","p","y">>,
      <<"s","r","c","/","u","t","i","l","s",".","p","y">>,
      <<".","g","i","t","i","g","n","o","r","e">>,
      <<"a",":","b">>, <<"a","*">>, <<"?","a">>, <<"a","\"">>,
      <<"<","a">>, <<"a",">">>, <<"a","|","b">>,
      <<" ","/","s","r","c","/","a",".","p","y","\n","/">> }

\* names that meet the secret patterns in a directory, in the last component,
\* and not at all
IgnoreCorpus ==
    { <<"i","d","_","r","s","a","/","a">>,
      <<"x",".","p","e","m","/","a">>,
      <<"a","/","b",".","p","e","m">>,
      <<"a","/","i","d","_","r","s","a">>,
      <<"a","/","a",".","e","n","v">>,
      <<"p","e","m">>,
      <<"x",".","p","e","m","\n","/">> }

\* names with a hidden component, and dotfiles that are let through
HiddenCorpus ==
    { <<".","g","i","t">>,
      <<"s","r","c","/",".","h","i","d","d","e","n","/","x",".","p","y">>,
      <<".","g","i","t","a","t","t","r","i","b","u","t","e","s">>,
      <<"s","r","c","/",".","e","s","l","i","n","t","r","c",".","j","s">>,
      <<"c","o","n","\n","/">> }

FilenameInputs ==
    StringsUpTo(FilenameAlphabet, MaxLen) \cup FilenameCorpus \cup IgnoreCorpus
    \cup HiddenCorpus

-----------------------------------------------------------------------------
(* The filesystem *)

DirNode == [kind |-> "dir", target |-> <<>>]
FileNode == [kind |-> "file", target |-> <<>>]
LinkNode(t) == [kind |-> "link", target |-> t]

\* settings.data_dir and the staging root under it
data_dir == << <<"d","a","t","a">> >>
staging_root == Append(data_dir, <<"s","t","a","g","i","n","g">>)
\* a directory outside the staging root
Outside == << <<"e","t","c">> >>

InitFs ==
    (<<>> :> DirNode) @@ (data_dir :> DirNode) @@ (staging_root :> DirNode)
    @@ (Outside :> DirNode)

NoRequest ==
    [project_id |-> <<>>, filename |-> <<>>, content |-> <<>>, encoding |-> "none",
     snapshot_type |-> <<>>, file_path |-> FALSE]
NoPath == << <<"<none>">> >>
NoWrite == [at |-> NoPath, inside |-> TRUE, linked |-> FALSE]
\* the call made on the snapshot repository, if any
NoRepoCall == [method |-> "none", snapshot_type |-> <<>>]
NoResponse ==
    [tool |-> "none", kind |-> "none", rule |-> "none", message |-> <<>>,
     error |-> "none", level |-> "none", repo |-> NoRepoCall]

ToolInit ==
    /\ fs = InitFs
    /\ pc = "idle"
    /\ req = NoRequest
    /\ safe_path = NoPath
    /\ nbytes = 0
    /\ response = NoResponse
    /\ syscalls = {}
    /\ made = {}
    /\ written = NoWrite

-----------------------------------------------------------------------------
(* security.py: validate_project_id *)

VALID_PROJECT_ID_MIN == 3
VALID_PROJECT_ID_MAX == 64
ProjectIdChars == Alnum \cup {"_", "-"}

FullMatchProjectIdTwoChars(s) ==
    /\ Len(s) >= VALID_PROJECT_ID_MIN - 1
    /\ Len(s) <= VALID_PROJECT_ID_MAX
    /\ \A i \in 1..Len(s) : s[i] \in ProjectIdChars

FullMatchProjectId(s) ==
    /\ Len(s) >= VALID_PROJECT_ID_MIN
    /\ Len(s) <= VALID_PROJECT_ID_MAX
    /\ \A i \in 1..Len(s) : s[i] \in ProjectIdChars

VALID_PROJECT_ID(s) ==
    \/ FullMatchProjectId(s)
    \/ /\ Len(s) >= 2
       /\ s[Len(s)] = "\n"
       /\ FullMatchProjectId(SubSeq(s, 1, Len(s) - 1))

validate_project_id(raw) ==
    IF Len(raw) = 0 THEN Raised("ValidationError", "project_id is required")
    ELSE LET project_id == str_strip(raw, Whitespace)
         IN  IF ~ VALID_PROJECT_ID(project_id)
             THEN Raised("ValidationError", "Invalid project_id format")
             ELSE IF str_startswith(project_id, "-") \/ str_startswith(project_id, ".")
                  THEN Raised("ValidationError", "project_id cannot start with '-' or '.'")
             ELSE IF str_lower(project_id) \in RESERVED_NAMES
                  THEN Raised("ValidationError", "project_id cannot be a reserved name")
             ELSE Returned(project_id)

-----------------------------------------------------------------------------
(* Path resolution as the operating system and pathlib do it *)

Parent(path) == IF Len(path) = 0 THEN path ELSE SubSeq(path, 1, Len(path) - 1)

IsRelativeTo(path, base) ==
    Len(base) <= Len(path) /\ SubSeq(path, 1, Len(base)) = base

Exists(f, path) == path \in DOMAIN f
IsKind(f, path, kind) == path \in DOMAIN f /\ f[path].kind = kind

\* os.path.realpath(strict=False): follows every symbolic link, keeps missing
\* components, and gives up on a link met again while it is being resolved
RECURSIVE _joinrealpath(_, _, _, _)
_joinrealpath(f, path, rest, seen) ==
    IF Len(rest) = 0 THEN [ok |-> TRUE, path |-> path]
    ELSE LET newpath == Append(path, Head(rest))
         IN  IF ~ IsKind(f, newpath, "link")
             THEN _joinrealpath(f, newpath, Tail(rest), seen)
             ELSE IF newpath \in seen
                  THEN [ok |-> FALSE, path |-> newpath \o Tail(rest)]
             ELSE LET r == _joinrealpath(f, <<>>, f[newpath].target,
                                         seen \cup {newpath})
                  IN  IF ~ r.ok
                      THEN [ok |-> FALSE, path |-> r.path \o Tail(rest)]
                      ELSE _joinrealpath(f, r.path, Tail(rest), seen)

realpath(f, path) == _joinrealpath(f, <<>>, path, {})

\* the file a system call on `path` reaches: every link followed, or NoPath
Physical(f, path) ==
    LET r == realpath(f, path)
    IN  IF r.ok /\ Exists(f, r.path) THEN r.path ELSE NoPath

\* Path.is_symlink(): lstat, with ENOENT, ENOTDIR and ELOOP read as False
is_symlink(f, path) ==
    /\ Len(path) > 0
    /\ LET dir == Physical(f, Parent(path))
       IN  /\ dir # NoPath
           /\ IsKind(f, dir, "dir")
           /\ IsKind(f, Append(dir, path[Len(path)]), "link")

\* Path.resolve(): a symlink loop raises RuntimeError up to Python 3.12 and
\* leaves the path unresolved from Python 3.13 on
resolve(f, raises, path) ==
    LET r == realpath(f, path)
    IN  IF ~ r.ok /\ raises
        THEN Raised("RuntimeError", "Symlink loop")
        ELSE Returned(r.path)

-----------------------------------------------------------------------------
(* security.py: get_safe_staging_path *)

\* the paths the mutated loops visit
RECURSIVE SymlinkWalkBelowProject(_)
SymlinkWalkBelowProject(current) ==
    IF Len(current) <= Len(staging_root) + 1 THEN {}
    ELSE {current} \cup SymlinkWalkBelowProject(Parent(current))

SymlinkWalkParentsOnly(current) ==
    LET RECURSIVE up(_)
        up(c) == IF c = staging_root \/ c = Parent(c) THEN {}
                 ELSE {c} \cup up(Parent(c))
    IN  up(Parent(current))

\* the paths visited by the loop `while current != staging_root`
RECURSIVE SymlinkWalk(_)
SymlinkWalk(current) ==
    IF current = staging_root THEN {}
    ELSE {current} \cup
         (LET parent == Parent(current)
          IN  IF parent = Parent(parent) THEN {} ELSE SymlinkWalk(parent))

\* the first symbolic link the loop meets: the walk goes from the candidate
\* upwards, so it is the deepest one
FirstSymlink(f, target) ==
    CHOOSE current \in SymlinkWalk(target) :
        /\ is_symlink(f, current)
        /\ \A other \in SymlinkWalk(target) :
               is_symlink(f, other) => Len(other) <= Len(current)

\* f"Symlink detected in path: {current}"
SymlinkMessage(current) == current

TargetPath(project_id, filename) ==
    Append(staging_root, project_id) \o str_split(filename, "/")

get_safe_staging_path(f, raises, raw_project_id, raw_filename) ==
    LET pid == validate_project_id(raw_project_id)
    IN  IF pid.kind # "ok" THEN pid
        ELSE LET fn == validate_filename(raw_filename)
        IN  IF fn.kind # "ok" THEN fn
        ELSE LET project_staging == Append(staging_root, pid.value)
                 target == TargetPath(pid.value, fn.value)
                 resolved == resolve(f, raises, target)
        IN  IF resolved.kind # "ok" THEN resolved
        ELSE LET base == resolve(f, raises, project_staging)
        IN  IF base.kind # "ok" THEN base
        ELSE IF ~ IsRelativeTo(resolved.value, base.value)
             THEN RaisedWith("SecurityError", "Path traversal detected", fn.value)
        ELSE IF \E current \in SymlinkWalk(target) : is_symlink(f, current)
             THEN RaisedWith("SecurityError", "Symlink detected in path",
                             SymlinkMessage(FirstSymlink(f, target)))
        ELSE Returned(resolved.value)

\* a guard that makes sure the project staging directory exists
guard_effect_mkdir(f, project_id) ==
    LET path == Append(staging_root, project_id)
    IN  IF Exists(f, path) \/ ~ IsKind(f, staging_root, "dir") THEN f
        ELSE f @@ (path :> DirNode)

\* the filesystem after get_safe_staging_path: Path.resolve() and
\* Path.is_symlink() read directory entries and link targets, nothing else
guard_effect(f, project_id) == f

-----------------------------------------------------------------------------
(* security.py: validate_vendor_id *)

VENDOR_ID_MAX == 64

validate_vendor_id(raw) ==
    IF Len(raw) = 0 THEN Raised("ValidationError", "vendor_id is required")
    ELSE LET vendor_id == str_strip(raw, Whitespace)
         IN  IF Len(vendor_id) < 1 \/ Len(vendor_id) > VENDOR_ID_MAX
             THEN Raised("ValidationError", "vendor_id must be 1-64 characters")
             ELSE Returned(vendor_id)

-----------------------------------------------------------------------------
(* security.py: validate_repo_url *)

GITHUB_PREFIX ==
    <<"h","t","t","p","s",":","/","/","g","i","t","h","u","b",".","c","o","m","/">>

\* str.startswith with a prefix of several characters
str_hasprefix(s, prefix) ==
    Len(s) >= Len(prefix) /\ SubSeq(s, 1, Len(prefix)) = prefix

\* str.replace(pat, ''): every occurrence of pat removed, left to right
RECURSIVE str_remove(_, _)
str_remove(s, pat) ==
    IF Len(s) = 0 THEN s
    ELSE IF str_hasprefix(s, pat)
         THEN str_remove(SubSeq(s, Len(pat) + 1, Len(s)), pat)
    ELSE <<Head(s)>> \o str_remove(Tail(s), pat)

validate_repo_url(raw) ==
    IF Len(raw) = 0 THEN Raised("ValidationError", "repo_url is required")
    ELSE LET repo_url == str_strip(raw, Whitespace)
             parts == str_split(str_rstrip(str_remove(repo_url, GITHUB_PREFIX), {"/"}), "/")
         IN  IF ~ str_hasprefix(repo_url, GITHUB_PREFIX)
             THEN Raised("ValidationError", "repo_url must be an HTTPS GitHub URL")
             ELSE IF Len(parts) < 2
                  THEN Raised("ValidationError", "repo_url must include owner and repo name")
             ELSE Returned(repo_url)

-----------------------------------------------------------------------------
(* security.py: validate_snapshot_type *)

valid_types ==
    { <<"f","i","l","e","_","m","e","t","a","d","a","t","a">>,
      <<"i","m","p","o","r","t","s">>,
      <<"e","x","p","o","r","t","s">>,
      <<"f","u","n","c","t","i","o","n","s">>,
      <<"c","l","a","s","s","e","s">>,
      <<"c","o","n","n","e","c","t","i","o","n","s">>,
      <<"r","e","p","o","_","m","e","t","a","d","a","t","a">>,
      <<"s","e","c","u","r","i","t","y">>,
      <<"q","u","a","l","i","t","y">>,
      <<"d","o","c","_","m","e","t","a","d","a","t","a">>,
      <<"d","o","c","_","c","o","n","t","e","n","t">>,
      <<"d","o","c","_","a","n","a","l","y","s","i","s">> }

validate_snapshot_type(raw) ==
    IF Len(raw) = 0 THEN Raised("ValidationError", "snapshot_type is required")
    ELSE LET snapshot_type == str_lower(str_strip(raw, Whitespace))
         IN  IF snapshot_type \notin valid_types
             THEN Raised("ValidationError", "Invalid snapshot_type")
             ELSE Returned(snapshot_type)

-----------------------------------------------------------------------------
(* System calls of the handlers *)

Fail(f) == [ok |-> FALSE, fs |-> f, made |-> {}, at |-> NoPath]

\* Path.mkdir(parents=True, exist_ok=True)
RECURSIVE mkdir_parents(_, _)
mkdir_parents(f, path) ==
    LET here == Physical(f, path)
    IN  IF here # NoPath
        THEN IF IsKind(f, here, "dir")
             THEN [ok |-> TRUE, fs |-> f, made |-> {}, at |-> here]
             ELSE Fail(f)
        ELSE IF Len(path) = 0 THEN Fail(f)
        ELSE LET up == mkdir_parents(f, Parent(path))
                 new == Append(up.at, path[Len(path)])
             IN  IF ~ up.ok THEN Fail(f)
                 ELSE IF Exists(up.fs, new) THEN Fail(f)
                 ELSE [ok |-> TRUE, fs |-> up.fs @@ (new :> DirNode),
                       made |-> up.made \cup {new}, at |-> new]

\* open(path, "wb") followed by write
open_wb(f, path) ==
    LET r == realpath(f, path)
    IN  IF ~ r.ok THEN Fail(f)
        ELSE IF Exists(f, r.path)
             THEN IF IsKind(f, r.path, "file")
                  THEN [ok |-> TRUE, fs |-> f, made |-> {}, at |-> r.path]
                  ELSE Fail(f)
        ELSE IF IsKind(f, Parent(r.path), "dir")
             THEN [ok |-> TRUE, fs |-> f @@ (r.path :> FileNode),
                   made |-> {r.path}, at |-> r.path]
        ELSE Fail(f)

\* the regular files found by Path.rglob("*") under `path`
rglob_files(f, path) ==
    LET top == Physical(f, path)
    IN  IF top = NoPath THEN {}
        ELSE {q \in DOMAIN f :
                 /\ IsRelativeTo(q, top) /\ q # top
                 /\ f[q].kind = "file"
                 /\ \A k \in (Len(top) + 1)..(Len(q) - 1) :
                        f[SubSeq(q, 1, k)].kind = "dir"}

\* app.ingest.local_loader.get_project_staging_path
get_project_staging_path(project_id) == Append(staging_root, project_id)

\* app.ingest.local_loader.delete_project_staging: the project directory is
\* removed wholesale
delete_project_staging(f, project_id) ==
    LET top == get_project_staging_path(project_id)
    IN  [q \in {q \in DOMAIN f : ~ IsRelativeTo(q, top)} |-> f[q]]

-----------------------------------------------------------------------------
(* tools.py: decoding the uploaded content *)

EAcute == "\\u00e9"
Surrogate == "\\ud800"
Base64Alphabet == Alnum \cup {"+", "/"}

\* str.encode("utf-8"): the number of bytes, or -1 for UnicodeEncodeError
RECURSIVE utf8_len(_)
utf8_len(content) ==
    IF Len(content) = 0 THEN 0
    ELSE LET rest == utf8_len(Tail(content))
         IN  IF rest < 0 \/ Head(content) = Surrogate THEN -1
             ELSE IF Head(content) = EAcute THEN rest + 2
             ELSE rest + 1

\* binascii.a2b_base64 without strict mode: the number of bytes decoded, or
\* -1 for binascii.Error
RECURSIVE a2b_base64(_, _, _, _)
a2b_base64(data, quad_pos, pads, out) ==
    IF Len(data) = 0
    THEN IF quad_pos # 0 THEN -1 ELSE out
    ELSE IF Head(data) = "="
         THEN IF quad_pos >= 2 /\ quad_pos + pads + 1 >= 4
              THEN out
              ELSE a2b_base64(Tail(data), quad_pos, pads + 1, out)
    ELSE IF Head(data) \notin Base64Alphabet
         THEN a2b_base64(Tail(data), quad_pos, pads, out)
    ELSE IF quad_pos = 0
         THEN a2b_base64(Tail(data), 1, 0, out)
    ELSE a2b_base64(Tail(data), (quad_pos + 1) % 4, 0, out + 1)

\* base64.b64decode of a str: non-ASCII text is a ValueError
b64decode_len(content) ==
    IF \E i \in 1..Len(content) : content[i] \in {EAcute, Surrogate}
    THEN -1
    ELSE a2b_base64(content, 0, 0, 0)

-----------------------------------------------------------------------------
(* The filename sanitizer applied to raw input, then to its own output *)

InitGuard ==
    /\ ignore_patterns \in IgnorePatternSets
    /\ input \in FilenameInputs
    /\ first = NoResult
    /\ second = NoResult
    /\ loop_raises = FALSE
    /\ ToolInit

Sanitize ==
    /\ first = NoResult
    /\ first' = validate_filename(input)
    /\ UNCHANGED <<ignore_patterns, input, second>>
    /\ UNCHANGED tool_vars

Resanitize ==
    /\ first.kind = "ok"
    /\ second = NoResult
    /\ second' = validate_filename(first.value)
    /\ UNCHANGED <<ignore_patterns, input, first>>
    /\ UNCHANGED tool_vars

NextGuard == Sanitize \/ Resanitize

SpecGuard == InitGuard /\ [][NextGuard]_vars

-----------------------------------------------------------------------------
(* validate_project_id applied to raw input *)

ProjectIdAlphabet == {"a", "-", ".", "_", " ", "\n", "!"}

Repeat(c, n) == [i \in 1..n |-> c]

ProjectIdCorpus ==
    { <<"a","b">>, <<"a","b","c">>, <<"-","a","b","c">>, <<".","a","b","c">>,
      <<"N","U","L">>, <<"n","u","l">>, <<"C","o","n">>, <<"p","r","n">>,
      <<"A","U","X">>, <<"c","o","m","1">>, <<"C","O","M","9">>,
      <<"l","p","t","5">>, <<"c","o","m","0">>, <<"c","o","n","s">>,
      <<" ","N","u","l","\n">>, <<" ","a","b","c"," ">>, <<"a","b","c","\n">>,
      <<"a","b"," ","c">>, <<"a","/","b">>, <<"A","_","9","-","z">>,
      <<"a","b",EAcute>>,
      Repeat("a", VALID_PROJECT_ID_MAX - 1),
      Repeat("a", VALID_PROJECT_ID_MAX),
      Repeat("a", VALID_PROJECT_ID_MAX + 1),
      <<" ">> \o Repeat("a", VALID_PROJECT_ID_MAX) \o <<"\n">> }

ProjectIdTexts == StringsUpTo(ProjectIdAlphabet, MaxLen) \cup ProjectIdCorpus

InitProjectId ==
    /\ ignore_patterns = IGNORE_PATTERNS
    /\ input \in ProjectIdTexts
    /\ first = NoResult
    /\ second = NoResult
    /\ loop_raises = FALSE
    /\ ToolInit

ValidateProjectId ==
    /\ first = NoResult
    /\ first' = validate_project_id(input)
    /\ UNCHANGED <<ignore_patterns, input, second>>
    /\ UNCHANGED tool_vars

SpecProjectId == InitProjectId /\ [][ValidateProjectId]_vars

-----------------------------------------------------------------------------
(* validate_repo_url applied to raw input *)

RepoUrlAlphabet == {"o", "/", " ", "\n"}

RepoUrlCorpus ==
    { <<"h","t","t","p",":","/","/","g","i","t","h","u","b",".","c","o","m","/","o","/","r">>,
      <<"H","T","T","P","S",":","/","/","g","i","t","h","u","b",".","c","o","m","/","o","/","r">>,
      <<"h","t","t","p","s",":","/","/","g","i","t","h","u","b",".","c","o","m",".","e",".","i","o","/","o","/","r">>,
      <<"h","t","t","p","s",":","/","/","g","i","t","l","a","b",".","c","o","m","/","o","/","r">>,
      <<"o","/","r">>,
      <<" ">> \o GITHUB_PREFIX \o <<"o","/","r","\n">>,
      GITHUB_PREFIX \o <<"o","/">> \o GITHUB_PREFIX,
      GITHUB_PREFIX \o GITHUB_PREFIX \o <<"o","/","r">>,
      GITHUB_PREFIX \o <<"o","/","r","/","x","/","y">> }

RepoUrlTexts ==
    StringsUpTo(RepoUrlAlphabet, MaxLen)
    \cup { GITHUB_PREFIX \o rest : rest \in StringsUpTo(RepoUrlAlphabet, MaxLen) }
    \cup RepoUrlCorpus

InitRepoUrl ==
    /\ ignore_patterns = IGNORE_PATTERNS
    /\ input \in RepoUrlTexts
    /\ first = NoResult
    /\ second = NoResult
    /\ loop_raises = FALSE
    /\ ToolInit

ValidateRepoUrl ==
    /\ first = NoResult
    /\ first' = validate_repo_url(input)
    /\ UNCHANGED <<ignore_patterns, input, second>>
    /\ UNCHANGED tool_vars

SpecRepoUrl == InitRepoUrl /\ [][ValidateRepoUrl]_vars

-----------------------------------------------------------------------------
(* Tool calls the model issues *)

abc == <<"a","b","c">>
xyz == <<"x","y","z">>
ProjectIdInputs == {abc, xyz, <<"a","b">>}
VendorIdInputs == {<<"v">>, <<" ">>}
RepoUrlInputs ==
    { GITHUB_PREFIX \o <<"o","/","r">>, GITHUB_PREFIX \o <<"o">>,
      <<"h","t","t","p",":","/","/","g","i","t","h","u","b",".","c","o","m","/","o","/","r">> }
\* project ids of the calls that do not touch the staging tree
QueryProjectIds == {abc, <<"a","b">>}
SnapshotTypeInputs ==
    { <<>>, <<"S","e","c","u","r","i","t","y">>, <<"b","o","g","u","s">>,
      <<" ","i","m","p","o","r","t","s","\n">>, <<" ">> }

UploadFilenames ==
    { <<"d","/","f">>, <<"d">>, <<".",".","/","f">> }

Upload(p, f, c, e) ==
    [NoRequest EXCEPT !.project_id = p, !.filename = f, !.content = c, !.encoding = e]

UploadRequests ==
    { Upload(abc, f, <<"h","i">>, "utf-8") : f \in UploadFilenames }
    \cup { Upload(p, <<"d">>, <<"h","i">>, "utf-8") : p \in ProjectIdInputs }
    \cup { Upload(abc, <<"d","/","f">>, <<"h",EAcute,EAcute>>, "utf-8"),
           Upload(abc, <<"d","/","f">>, <<"h",Surrogate>>, "utf-8"),
           Upload(abc, <<"d","/","f">>, <<"a","G","k","=">>, "base64"),
           Upload(abc, <<"d","/","f">>, <<"a","G","k">>, "base64"),
           Upload(abc, <<"d","/","f">>, <<"h","i">>, "latin-1") }

\* where the environment puts a symbolic link, and what it points at
LinkSites ==
    { Append(staging_root, p) : p \in {abc, xyz} }
    \cup { Append(staging_root, p) \o << <<"d">> >> : p \in {abc, xyz} }
LinkTargets ==
    { Append(staging_root, abc), Append(staging_root, xyz), Outside }

Links(f) == {q \in DOMAIN f : f[q].kind = "link"}

-----------------------------------------------------------------------------
(* tools.py: handle_upload_to_staging, one statement group per step *)

UploadStepsMkdirEarly ==
    <<"validate_project_id", "validate_filename", "get_safe_staging_path",
      "mkdir", "decode", "check_size", "write">>

UploadSteps ==
    <<"validate_project_id", "validate_filename", "get_safe_staging_path",
      "decode", "check_size", "mkdir", "write">>

NextStep(step) ==
    LET i == CHOOSE i \in 1..Len(UploadSteps) : UploadSteps[i] = step
    IN  IF i = Len(UploadSteps) THEN "return" ELSE UploadSteps[i + 1]

\* the statements of the handlers that stand in a
\* `try: ... except Exception as e: raise ToolError(...)` block
TryBodyWithValidators ==
    {"process_project", "get_project_notebook", "delete_project",
     "get_project_manifest", "repository",
     "validate_project_id", "validate_filename", "get_safe_staging_path"}

TryBody ==
    {"process_project", "get_project_notebook", "delete_project",
     "get_project_manifest", "repository"}

\* the class of the exception that leaves a handler when an exception of
\* class `class` is raised by its statement `step`
HandlerRaises(step, class) ==
    IF step \in TryBody THEN "ToolError"
    ELSE IF step = "b64decode" THEN "ValidationError"
    ELSE IF step = "open" /\ class = "OSError" THEN "ToolError"
    ELSE class

\* server.py call_tool: the error field of the response, by except clause
call_tool_error(kind) ==
    IF kind = "ok" THEN "none"
    ELSE IF kind = "ValidationError" THEN "validation_error"
    ELSE IF kind = "SecurityError" THEN "security_error"
    ELSE IF kind = "ToolError" THEN "tool_error"
    ELSE "internal_error"

\* server.py call_tool: the level the outcome is logged at
call_tool_level(kind) ==
    IF kind = "ok" THEN "info"
    ELSE IF kind = "ValidationError" THEN "warning"
    ELSE "error"

\* call_tool's answer; `message` is what str(e) quotes after the rule
Answer(tool, kind, rule, message, repo) ==
    response' = [tool |-> tool, kind |-> kind, rule |-> rule, message |-> message,
                 error |-> call_tool_error(kind), level |-> call_tool_level(kind),
                 repo |-> repo]

RespondWith(tool, kind, rule, repo) == Answer(tool, kind, rule, <<>>, repo)

Respond(tool, kind, rule) == RespondWith(tool, kind, rule, NoRepoCall)

\* an exception raised by statement `step` of the handler of `tool`
Raise(tool, step, class, rule) == Respond(tool, HandlerRaises(step, class), rule)

\* the call ends: with an exception, or with its result
UploadEnds(step, class, rule) ==
    /\ pc' = "replied"
    /\ Raise("upload_to_staging", step, class, rule)
    /\ UNCHANGED <<req, safe_path, nbytes>>

UploadGoesOn ==
    IF NextStep(pc) = "return"
    THEN /\ pc' = "replied"
         /\ Respond("upload_to_staging", "ok", "uploaded")
         /\ UNCHANGED <<req, safe_path, nbytes>>
    ELSE /\ pc' = NextStep(pc)
         /\ UNCHANGED response

UploadStart(r) ==
    /\ pc = "idle"
    /\ pc' = UploadSteps[1]
    /\ req' = r
    /\ UNCHANGED <<fs, loop_raises, safe_path, nbytes, response, syscalls,
                   made, written>>
    /\ UNCHANGED guard_vars

UploadValidateProjectId ==
    /\ pc = "validate_project_id"
    /\ LET r == validate_project_id(req.project_id)
       IN  IF r.kind = "ok"
           THEN /\ req' = [req EXCEPT !.project_id = r.value]
                /\ pc' = NextStep(pc)
                /\ UNCHANGED <<response, safe_path, nbytes>>
           ELSE UploadEnds("validate_project_id", r.kind, r.rule)
    /\ UNCHANGED <<fs, loop_raises, syscalls, made, written>>
    /\ UNCHANGED guard_vars

UploadValidateFilename ==
    /\ pc = "validate_filename"
    /\ LET r == validate_filename(req.filename)
       IN  IF r.kind = "ok"
           THEN /\ req' = [req EXCEPT !.filename = r.value]
                /\ pc' = NextStep(pc)
                /\ UNCHANGED <<response, safe_path, nbytes>>
           ELSE UploadEnds("validate_filename", r.kind, r.rule)
    /\ UNCHANGED <<fs, loop_raises, syscalls, made, written>>
    /\ UNCHANGED guard_vars

UploadResolve ==
    /\ pc = "get_safe_staging_path"
    /\ LET r == get_safe_staging_path(fs, loop_raises, req.project_id, req.filename)
       IN  IF r.kind = "ok"
           THEN /\ safe_path' = r.value
                /\ pc' = NextStep(pc)
                /\ UNCHANGED <<response, req, nbytes>>
           ELSE /\ pc' = "replied"
                /\ Answer("upload_to_staging",
                          HandlerRaises("get_safe_staging_path", r.kind),
                          r.rule, r.value, NoRepoCall)
                /\ UNCHANGED <<req, safe_path, nbytes>>
    /\ fs' = guard_effect(fs, req.project_id)
    /\ UNCHANGED <<loop_raises, syscalls, made, written>>
    /\ UNCHANGED guard_vars

UploadDecode ==
    /\ pc = "decode"
    /\ LET n == IF req.encoding = "base64" THEN b64decode_len(req.content)
                ELSE utf8_len(req.content)
       IN  IF req.encoding \notin {"base64", "utf-8"}
           THEN UploadEnds("encoding", "ValidationError", "Invalid encoding")
           ELSE IF n < 0 /\ req.encoding = "base64"
                THEN UploadEnds("b64decode", "ValueError", "Invalid base64 content")
           ELSE IF n < 0
                THEN UploadEnds("encode", "UnicodeEncodeError", "surrogates not allowed")
           ELSE /\ nbytes' = n
                /\ pc' = NextStep(pc)
                /\ UNCHANGED <<response, req, safe_path>>
    /\ UNCHANGED <<fs, loop_raises, syscalls, made, written>>
    /\ UNCHANGED guard_vars

UploadCheckSize ==
    /\ pc = "check_size"
    /\ IF nbytes > MaxCodeFileBytes
       THEN UploadEnds("check_size", "ValidationError", "File too large")
       ELSE /\ pc' = NextStep(pc)
            /\ UNCHANGED <<response, req, safe_path, nbytes>>
    /\ UNCHANGED <<fs, loop_raises, syscalls, made, written>>
    /\ UNCHANGED guard_vars

UploadMkdir ==
    /\ pc = "mkdir"
    /\ LET m == mkdir_parents(fs, Parent(safe_path))
       IN  /\ syscalls' = syscalls \cup
                  {[op |-> "mkdir", path |-> Parent(safe_path),
                    origin |-> "get_safe_staging_path.parent"]}
           /\ IF m.ok
              THEN /\ fs' = m.fs
                   /\ made' = made \cup m.made
                   /\ pc' = NextStep(pc)
                   /\ UNCHANGED <<response, req, safe_path, nbytes>>
              ELSE /\ UploadEnds("mkdir", "OSError", "mkdir")
                   /\ UNCHANGED <<fs, made>>
    /\ UNCHANGED <<loop_raises, written>>
    /\ UNCHANGED guard_vars

UploadWrite ==
    /\ pc = "write"
    /\ LET w == open_wb(fs, safe_path)
           project_staging == Append(staging_root, req.project_id)
           target == TargetPath(req.project_id, req.filename)
       IN  /\ syscalls' = syscalls \cup
                  {[op |-> "open", path |-> safe_path,
                    origin |-> "get_safe_staging_path"]}
           /\ IF w.ok
              THEN /\ fs' = w.fs
                   /\ made' = made \cup w.made
                   /\ written' =
                          [at |-> w.at,
                           inside |-> IsRelativeTo(w.at, project_staging)
                                      /\ w.at # project_staging,
                           linked |-> \E c \in SymlinkWalk(target) : is_symlink(fs, c)]
                   /\ UploadGoesOn
              ELSE /\ UploadEnds("open", "OSError", "Failed to write file")
                   /\ UNCHANGED <<fs, made, written>>
    /\ UNCHANGED loop_raises
    /\ UNCHANGED guard_vars

-----------------------------------------------------------------------------
(* tools.py: the handlers that list and delete *)

ListCall(project_id) ==
    [op |-> "rglob", path |-> get_project_staging_path(project_id),
     origin |-> "get_project_staging_path"]
DeleteCall(project_id) ==
    [op |-> "delete", path |-> get_project_staging_path(project_id),
     origin |-> "get_project_staging_path"]

GetStagingInfo(raw) ==
    /\ pc = "idle"
    /\ LET p == validate_project_id(raw)
       IN  IF p.kind # "ok"
           THEN /\ Raise("get_staging_info", "validate_project_id", p.kind, p.rule)
                /\ syscalls' = {}
           ELSE /\ Respond("get_staging_info", "ok", "success")
                /\ syscalls' = {ListCall(p.value)}
    /\ pc' = "replied"
    /\ UNCHANGED <<fs, loop_raises, req, safe_path, nbytes, made, written>>
    /\ UNCHANGED guard_vars

ClearStaging(raw) ==
    /\ pc = "idle"
    /\ LET p == validate_project_id(raw)
       IN  IF p.kind # "ok"
           THEN /\ Raise("clear_staging", "validate_project_id", p.kind, p.rule)
                /\ syscalls' = {}
                /\ UNCHANGED fs
           ELSE /\ Respond("clear_staging", "ok", "cleared")
                /\ syscalls' = {ListCall(p.value), DeleteCall(p.value)}
                /\ fs' = delete_project_staging(fs, p.value)
    /\ pc' = "replied"
    /\ UNCHANGED <<loop_raises, req, safe_path, nbytes, made, written>>
    /\ UNCHANGED guard_vars

\* app.main.delete_project is outside this module: it succeeds or raises
DeleteProject(raw, deleted) ==
    /\ pc = "idle"
    /\ LET p == validate_project_id(raw)
       IN  IF p.kind # "ok"
           THEN /\ Raise("delete_project", "validate_project_id", p.kind, p.rule)
                /\ syscalls' = {}
                /\ UNCHANGED fs
           ELSE IF ~ deleted
                THEN /\ Raise("delete_project", "delete_project", "Exception",
                           "Failed to delete project")
                     /\ syscalls' = {}
                     /\ UNCHANGED fs
           ELSE /\ Respond("delete_project", "ok", "deleted")
                /\ syscalls' = {DeleteCall(p.value)}
                /\ fs' = delete_project_staging(fs, p.value)
    /\ pc' = "replied"
    /\ UNCHANGED <<loop_raises, req, safe_path, nbytes, made, written>>
    /\ UNCHANGED guard_vars

\* app.main.process_project is outside this module: it succeeds or raises
ProcessLocalProject(raw, raw_vendor, processed) ==
    /\ pc = "idle"
    /\ LET p == validate_project_id(raw)
           v == validate_vendor_id(raw_vendor)
       IN  IF p.kind # "ok"
           THEN /\ Raise("process_local_project", "validate_project_id", p.kind, p.rule)
                /\ syscalls' = {}
           ELSE IF v.kind # "ok"
                THEN /\ Raise("process_local_project", "validate_vendor_id", v.kind, v.rule)
                     /\ syscalls' = {}
           ELSE /\ syscalls' = {ListCall(p.value)}
                /\ IF rglob_files(fs, get_project_staging_path(p.value)) = {}
                   THEN Raise("process_local_project", "check_files", "ToolError",
                              "No files in staging area")
                   ELSE IF ~ processed
                        THEN Raise("process_local_project", "process_project", "Exception",
                                   "Failed to process local project")
                   ELSE Respond("process_local_project", "ok", "completed")
    /\ pc' = "replied"
    /\ UNCHANGED <<fs, loop_raises, req, safe_path, nbytes, made, written>>
    /\ UNCHANGED guard_vars

-----------------------------------------------------------------------------
(* tools.py: the handlers that work on the snapshot store *)

\* app.main.process_project is outside this module: it succeeds or raises
ProcessGithubRepo(raw, raw_vendor, raw_url, processed) ==
    /\ pc = "idle"
    /\ LET p == validate_project_id(raw)
           v == validate_vendor_id(raw_vendor)
           u == validate_repo_url(raw_url)
       IN  IF p.kind # "ok"
           THEN Raise("process_github_repo", "validate_project_id", p.kind, p.rule)
           ELSE IF v.kind # "ok"
                THEN Raise("process_github_repo", "validate_vendor_id", v.kind, v.rule)
           ELSE IF u.kind # "ok"
                THEN Raise("process_github_repo", "validate_repo_url", u.kind, u.rule)
           ELSE IF ~ processed
                THEN Raise("process_github_repo", "process_project", "Exception",
                           "Failed to process repository")
           ELSE Respond("process_github_repo", "ok", "completed")
    /\ pc' = "replied"
    /\ syscalls' = {}
    /\ UNCHANGED <<fs, loop_raises, req, safe_path, nbytes, made, written>>
    /\ UNCHANGED guard_vars

\* app.main.get_project_notebook is outside this module: it succeeds or raises
GetProjectNotebook(raw, raw_vendor, found) ==
    /\ pc = "idle"
    /\ LET p == validate_project_id(raw)
           v == validate_vendor_id(raw_vendor)
       IN  IF p.kind # "ok"
           THEN Raise("get_project_notebook", "validate_project_id", p.kind, p.rule)
           ELSE IF v.kind # "ok"
                THEN Raise("get_project_notebook", "validate_vendor_id", v.kind, v.rule)
           ELSE IF ~ found
                THEN Raise("get_project_notebook", "get_project_notebook", "Exception",
                           "Failed to retrieve notebook")
           ELSE Respond("get_project_notebook", "ok", "success")
    /\ pc' = "replied"
    /\ syscalls' = {}
    /\ UNCHANGED <<fs, loop_raises, req, safe_path, nbytes, made, written>>
    /\ UNCHANGED guard_vars

\* app.main.get_project_manifest is outside this module: it succeeds or raises
GetProjectManifest(raw, found) ==
    /\ pc = "idle"
    /\ LET p == validate_project_id(raw)
       IN  IF p.kind # "ok"
           THEN Raise("get_project_manifest", "validate_project_id", p.kind, p.rule)
           ELSE IF ~ found
                THEN Raise("get_project_manifest", "get_project_manifest", "Exception",
                           "Failed to retrieve manifest")
           ELSE Respond("get_project_manifest", "ok", "success")
    /\ pc' = "replied"
    /\ syscalls' = {}
    /\ UNCHANGED <<fs, loop_raises, req, safe_path, nbytes, made, written>>
    /\ UNCHANGED guard_vars

\* app.main.get_metrics is outside this module: it succeeds or raises; the
\* except clause of the handler logs the exception and the handler returns
\* None
GetSystemMetrics(measured) ==
    /\ pc = "idle"
    /\ IF ~ measured
       THEN Respond("get_system_metrics", "ok", "None")
       ELSE Respond("get_system_metrics", "ok", "success")
    /\ pc' = "replied"
    /\ syscalls' = {}
    /\ UNCHANGED <<fs, loop_raises, req, safe_path, nbytes, made, written>>
    /\ UNCHANGED guard_vars

Query(p, t, by_file) ==
    [NoRequest EXCEPT !.project_id = p, !.snapshot_type = t, !.file_path = by_file]

\* the handler with `if snapshot_type:` left out
QueryTypeUnchecked(raw_type) == Returned(raw_type)

\* `if snapshot_type: snapshot_type = validate_snapshot_type(snapshot_type)`
QueryType(raw_type) ==
    IF Len(raw_type) > 0 THEN validate_snapshot_type(raw_type) ELSE Returned(raw_type)

\* the branch of the handler that reaches the repository
RepoCall(snapshot_type, by_file) ==
    [method |-> IF by_file THEN "get_by_file"
                ELSE IF Len(snapshot_type) > 0 THEN "get_by_type"
                ELSE "get_by_project",
     snapshot_type |-> snapshot_type]

\* app.storage.snapshot_repo is outside this module: the query succeeds or
\* raises; by_file says whether the call carries a file_path
QuerySnapshots(raw, raw_type, by_file, queried) ==
    /\ pc = "idle"
    /\ LET p == validate_project_id(raw)
           t == QueryType(raw_type)
       IN  IF p.kind # "ok"
           THEN Raise("query_snapshots", "validate_project_id", p.kind, p.rule)
           ELSE IF t.kind # "ok"
                THEN Raise("query_snapshots", "validate_snapshot_type", t.kind, t.rule)
           ELSE IF ~ queried
                THEN RespondWith("query_snapshots",
                                 HandlerRaises("repository", "Exception"),
                                 "Failed to query snapshots",
                                 RepoCall(t.value, by_file))
           ELSE RespondWith("query_snapshots", "ok", "success",
                            RepoCall(t.value, by_file))
    /\ req' = Query(raw, raw_type, by_file)
    /\ pc' = "replied"
    /\ syscalls' = {}
    /\ UNCHANGED <<fs, loop_raises, safe_path, nbytes, made, written>>
    /\ UNCHANGED guard_vars

-----------------------------------------------------------------------------
(* The environment: another process of the host replaces a path of the
   staging tree by a symbolic link *)

EnvSymlink(site, target) ==
    /\ pc # "replied"
    /\ Cardinality(Links(fs)) < MaxLinks
    /\ IsKind(fs, Parent(site), "dir")
    /\ fs' = [q \in {q \in DOMAIN fs : ~ IsRelativeTo(q, site)} |-> fs[q]]
             @@ (site :> LinkNode(target))
    /\ UNCHANGED <<loop_raises, pc, req, safe_path, nbytes, response,
                   syscalls, made, written>>
    /\ UNCHANGED guard_vars

-----------------------------------------------------------------------------
(* server.py: call_tool sends the reply and the server waits for the next
   call, in the same turn of the event loop *)

Replied ==
    /\ pc = "replied"
    /\ pc' = "idle"
    /\ req' = NoRequest
    /\ safe_path' = NoPath
    /\ nbytes' = 0
    /\ response' = NoResponse
    /\ syscalls' = {}
    /\ made' = {}
    /\ written' = NoWrite
    /\ UNCHANGED <<fs, loop_raises>>
    /\ UNCHANGED guard_vars

-----------------------------------------------------------------------------
(* The server with its environment *)

Init ==
    /\ ignore_patterns = IGNORE_PATTERNS
    /\ input = <<>>
    /\ first = NoResult
    /\ second = NoResult
    /\ loop_raises \in BOOLEAN
    /\ ToolInit

Next ==
    \/ \E r \in UploadRequests : UploadStart(r)
    \/ UploadValidateProjectId
    \/ UploadValidateFilename
    \/ UploadResolve
    \/ UploadDecode
    \/ UploadCheckSize
    \/ UploadMkdir
    \/ UploadWrite
    \/ \E p \in ProjectIdInputs : GetStagingInfo(p)
    \/ \E p \in ProjectIdInputs : ClearStaging(p)
    \/ \E p \in ProjectIdInputs, deleted \in BOOLEAN : DeleteProject(p, deleted)
    \/ \E p \in ProjectIdInputs, v \in VendorIdInputs, processed \in BOOLEAN :
           ProcessLocalProject(p, v, processed)
    \/ \E p \in ProjectIdInputs, v \in VendorIdInputs, u \in RepoUrlInputs,
          processed \in BOOLEAN : ProcessGithubRepo(p, v, u, processed)
    \/ \E p \in ProjectIdInputs, v \in VendorIdInputs, found \in BOOLEAN :
           GetProjectNotebook(p, v, found)
    \/ \E p \in ProjectIdInputs, found \in BOOLEAN : GetProjectManifest(p, found)
    \/ \E measured \in BOOLEAN : GetSystemMetrics(measured)
    \/ \E p \in QueryProjectIds, t \in SnapshotTypeInputs, by_file \in BOOLEAN,
          queried \in BOOLEAN : QuerySnapshots(p, t, by_file, queried)
    \/ Replied
    \/ \E site \in LinkSites, target \in LinkTargets : EnvSymlink(site, target)

Spec == Init /\ [][Next]_vars

-----------------------------------------------------------------------------
(* Properties of the path resolver, over every reachable filesystem *)

GuardProjectIds == ProjectIdInputs
GuardFilenames == UploadFilenames \cup { <<"d","\n","/">> }

ProjectDir(raw_project_id) ==
    Append(staging_root, validate_project_id(raw_project_id).value)

Accepted(raw_project_id, raw_filename) ==
    /\ validate_project_id(raw_project_id).kind = "ok"
    /\ validate_filename(raw_filename).kind = "ok"

\* what get_safe_staging_path returns for a project on the current filesystem
ReturnedPaths(raw_project_id) ==
    {r \in {get_safe_staging_path(fs, loop_raises, raw_project_id, f) :
                f \in GuardFilenames} : r.kind = "ok"}

\* The resolver is called inside a tool call, before the call has changed the
\* filesystem, and the environment changes the tree between calls as it does
\* during one: the filesystems of the idle states are the filesystems the
\* resolver is called on.

\* C1: whenever get_safe_staging_path returns a path, that path, with every
\* symbolic link followed, is a strict descendant of the resolved staging
\* directory of the project: never outside it, never the directory itself.
C1_StrictDescendant ==
    pc = "idle" =>
        \A p \in GuardProjectIds : \A r \in ReturnedPaths(p) :
            LET base == realpath(fs, ProjectDir(p)).path
                final == realpath(fs, r.value).path
            IN  IsRelativeTo(final, base) /\ final # base

\* the upload has just been given a path while the tree holds a symbolic link
C1_Witness ==
    /\ pc = "decode"
    /\ safe_path # NoPath
    /\ Links(fs) # {}

DistinctProjects(p, q) ==
    /\ validate_project_id(p).kind = "ok"
    /\ validate_project_id(q).kind = "ok"
    /\ validate_project_id(p).value # validate_project_id(q).value

\* C2 as claimed: a path returned for project p is never the resolved staging
\* directory of another project q nor inside it, and never a path returned
\* for q.
C2_Original ==
    pc = "idle" =>
        LET returned == [p \in GuardProjectIds |-> ReturnedPaths(p)]
        IN  \A p \in GuardProjectIds, q \in GuardProjectIds :
                DistinctProjects(p, q) =>
                    \A r \in returned[p] :
                        /\ ~ IsRelativeTo(r.value, realpath(fs, ProjectDir(q)).path)
                        /\ r \notin returned[q]

\* C2 as amended: a path returned for project p is never the directory
\* StagingRoot/q of another project q nor inside it, and never a path
\* returned for q.
C2_Isolation ==
    pc = "idle" =>
        LET returned == [p \in GuardProjectIds |-> ReturnedPaths(p)]
        IN  \A p \in GuardProjectIds, q \in GuardProjectIds :
                DistinctProjects(p, q) =>
                    \A r \in returned[p] :
                        /\ ~ IsRelativeTo(r.value, ProjectDir(q))
                        /\ r \notin returned[q]

\* the upload has been given a path for its project while a directory of
\* another project is a symbolic link into this project
C2_Witness ==
    /\ pc = "decode"
    /\ safe_path # NoPath
    /\ \E l \in Links(fs) :
           /\ fs[l].target = Append(staging_root, req.project_id)
           /\ ~ IsRelativeTo(l, Append(staging_root, req.project_id))

\* C3: for accepted inputs, a symbolic link anywhere on the walk from the
\* candidate path up to the staging root makes get_safe_staging_path fail
\* with a security error.
C3_SymlinkOnWalkIsSecurityError ==
    pc = "idle" => \A p \in GuardProjectIds, f \in GuardFilenames :
        ( /\ Accepted(p, f)
          /\ \E c \in SymlinkWalk(TargetPath(validate_project_id(p).value,
                                             validate_filename(f).value)) :
                 IsKind(fs, c, "link") )
        => get_safe_staging_path(fs, loop_raises, p, f).kind = "SecurityError"

\* C4: the bytes of an upload land inside the project's staging directory,
\* at a place with no symbolic link above it at the moment of the write.
C4_WriteStaysInside ==
    written # NoWrite => (written.inside /\ ~ written.linked)

\* C5: every filesystem call of a staging handler is made on the path
\* returned by get_safe_staging_path (or on its parent directory).
C5_OnlyResolverPaths ==
    \A c \in syscalls :
        c.origin \in {"get_safe_staging_path", "get_safe_staging_path.parent"}

\* C6: the upload touches the filesystem only after project-id validation,
\* filename sanitization, path resolution, decoding and the size check have
\* all succeeded; an upload that ends with a validation or security error
\* has created nothing.
C6_ChecksBeforeWrites ==
    /\ pc \in {"validate_project_id", "validate_filename",
               "get_safe_staging_path", "decode", "check_size"}
           => (made = {} /\ syscalls = {})
    /\ ( /\ pc = "replied"
         /\ response.tool = "upload_to_staging"
         /\ response.kind \in {"ValidationError", "SecurityError"} )
           => (made = {} /\ syscalls = {})

\* an upload whose path was resolved is refused for its size
C6_Witness ==
    /\ pc = "replied"
    /\ response.tool = "upload_to_staging"
    /\ response.rule = "File too large"
    /\ safe_path # NoPath

\* C12: get_safe_staging_path ends in one of three ways only: a returned
\* path, a format error or a security error; no other exception leaves it.
C12_OnlyThreeOutcomes ==
    pc = "idle" => \A p \in GuardProjectIds, f \in GuardFilenames :
        get_safe_staging_path(fs, loop_raises, p, f).kind
            \in {"ok", "ValidationError", "SecurityError"}

-----------------------------------------------------------------------------
(* Properties of the filename sanitizer *)

\* C7: a value returned by validate_filename contains no "..", no null byte
\* and no backslash, and neither starts nor ends with a slash.
C7_SanitizedIsClean ==
    first.kind = "ok" =>
        /\ ~ str_contains(first.value, <<".", ".">>)
        /\ ~ str_contains(first.value, <<NulByte>>)
        /\ ~ str_contains(first.value, <<"\\">>)
        /\ Len(first.value) > 0
        /\ first.value[1] # "/"
        /\ first.value[Len(first.value)] # "/"

\* a raw name with a leading slash and a backslash separator was accepted
C7_Witness ==
    /\ first.kind = "ok"
    /\ str_startswith(input, "/")
    /\ str_contains(input, <<"\\">>)

\* C8: validate_filename applied to its own output succeeds and returns the
\* same value.
C8_Idempotent ==
    second # NoResult => second = first

\* the normalized form the claim speaks of: separators unified, slashes trimmed
C9_Normalized(filename) ==
    str_strip(str_replace(filename, "\\", "/"), {"/"})

C9_Forbidden(s) ==
    \/ str_contains(s, <<".", ".">>)
    \/ \E i \in 1..Len(s) :
           s[i] \in {NulByte, "~", ":", "*", "?", "\"", "<", ">", "|"}

\* C9: a filename whose normalized form is non-empty and contains "..", a
\* null byte or one of ~ : * ? " < > | is rejected with a security error,
\* whatever other rule it breaks.
C9_ForbiddenIsSecurityError ==
    ( /\ first # NoResult
      /\ Len(C9_Normalized(input)) > 0
      /\ C9_Forbidden(C9_Normalized(input)) )
    => first.kind = "SecurityError"

\* a name that breaks the format rule as well as the forbidden-pattern rule
C9_Witness ==
    /\ first.kind = "SecurityError"
    /\ str_contains(input, <<" ">>)
    /\ C9_Forbidden(input)

C10_Stem(part) ==
    IF str_contains(part, <<".">>)
    THEN SubSeq(part, 1, (CHOOSE i \in 1..Len(part) :
                              part[i] = "." /\ \A j \in 1..(i - 1) : part[j] # ".") - 1)
    ELSE part

C10_NamesDevice(s) ==
    LET parts == str_split(s, "/")
    IN  \E i \in 1..Len(parts) : str_lower(C10_Stem(parts[i])) \in RESERVED_NAMES

\* C10: a filename with a component naming a reserved device, in any case
\* and with or without an extension, is rejected with a security error.
C10_DeviceIsSecurityError ==
    (first # NoResult /\ C10_NamesDevice(input)) => first.kind = "SecurityError"

\* C19: a value returned by validate_filename matches the format rule as a
\* whole string: a first character of [A-Za-z0-9._-], then characters of
\* [A-Za-z0-9._/-], at most 255 in all, so no whitespace and no newline.
C19_ReturnedMatchesFormat ==
    first.kind = "ok" =>
        /\ Len(first.value) \in 1..255
        /\ first.value[1] \in Alnum \cup {".", "_", "-"}
        /\ \A i \in 2..Len(first.value) :
               first.value[i] \in Alnum \cup {".", "_", "/", "-"}

C20_HiddenNames ==
    { <<".","g","i","t">>, <<".","e","n","v">>,
      <<"s","r","c","/",".","h","i","d","d","e","n","/","x",".","p","y">> }

\* C20: every component of a value returned by validate_filename is
\* non-empty, is not a reserved device name in any case and, if it starts
\* with a dot, is .gitignore or .gitattributes or has a further dot; .git,
\* .env and src/.hidden/x.py fail with a format error.
C20_ComponentsWellFormed ==
    /\ first.kind = "ok" =>
           LET parts == str_split(first.value, "/")
           IN  \A i \in 1..Len(parts) :
                   /\ Len(parts[i]) > 0
                   /\ str_lower(parts[i]) \notin RESERVED_NAMES
                   /\ parts[i] # <<".">>
                   /\ parts[i][1] = "." =>
                          \/ parts[i] \in DOT_ALLOWLIST
                          \/ \E k \in 2..Len(parts[i]) : parts[i][k] = "."
    /\ (first # NoResult /\ input \in C20_HiddenNames) =>
           first.kind = "ValidationError"

\* a name with a directory and a dotted name that has a further dot was
\* returned
C20_Witness ==
    /\ first.kind = "ok"
    /\ LET parts == str_split(first.value, "/")
       IN  /\ Len(parts) >= 2
           /\ \E i \in 1..Len(parts) :
                  Len(parts[i]) > 0 /\ parts[i][1] = "."

-----------------------------------------------------------------------------
(* The ignore-pattern matcher *)

\* the raw name gets as far as the ignore-pattern step
C11_PassesEarlierSteps(raw) ==
    LET filename == NormalizeFilename(raw)
        parts == str_split(filename, "/")
    IN  /\ Len(raw) > 0
        /\ Len(filename) > 0
        /\ ~ ForbiddenHit(filename)
        /\ VALID_FILENAME(filename)
        /\ \A i \in 1..Len(parts) : PartRule(parts[i]) = "none"

C11_GlobMatches(filename) ==
    LET parts == str_split(filename, "/")
    IN  \E k \in 1..Len(ignore_patterns) :
            \/ fnmatch(filename, ignore_patterns[k])
            \/ \E i \in 1..Len(parts) : fnmatch(parts[i], ignore_patterns[k])
            \/ fnmatch(parts[Len(parts)], ignore_patterns[k])

\* C11: whatever the ignore-pattern set, a filename that passes the earlier
\* steps is rejected with a format error exactly when some pattern matches
\* the whole normalized path, one of its components or its last component,
\* and is returned otherwise.
C11_IgnoredIffGlobMatch ==
    (first # NoResult /\ C11_PassesEarlierSteps(input)) =>
        IF C11_GlobMatches(NormalizeFilename(input))
        THEN first.kind = "ValidationError"
        ELSE first = Returned(NormalizeFilename(input))

\* a name rejected for a directory component alone: neither the whole path
\* nor the last component meets a pattern
C11_Witness ==
    /\ first = Raised("ValidationError", "File matches ignore pattern")
    /\ LET filename == NormalizeFilename(input)
           parts == str_split(filename, "/")
       IN  \A k \in 1..Len(ignore_patterns) :
               /\ ~ fnmatch(filename, ignore_patterns[k])
               /\ ~ fnmatch(parts[Len(parts)], ignore_patterns[k])

-----------------------------------------------------------------------------
(* Properties of the identifier validators *)

\* what the claim asks of the trimmed project id
C14_WellFormed(s) ==
    /\ Len(s) \in 3..64
    /\ \A i \in 1..Len(s) : s[i] \in Alnum \cup {"_", "-"}
    /\ s[1] \notin {"-", "."}
    /\ str_lower(s) \notin RESERVED_NAMES

\* C14: validate_project_id returns the whitespace-trimmed input when that is
\* 3 to 64 characters of [A-Za-z0-9_-], does not start with - or . and is
\* not a reserved device name in any case; it fails with a format error
\* otherwise.
C14_AcceptsExactlyWellFormed ==
    first # NoResult =>
        LET trimmed == str_strip(input, Whitespace)
        IN  IF C14_WellFormed(trimmed)
            THEN first = Returned(trimmed)
            ELSE first.kind = "ValidationError"

\* an identifier of the greatest length, wrapped in whitespace, was accepted
C14_Witness ==
    /\ first.kind = "ok"
    /\ Len(first.value) = 64
    /\ Len(input) > 64

\* C15: a URL is accepted only if it starts with https://github.com/ and
\* what follows the prefix, without the trailing slash, has an owner segment
\* and a repo segment, neither of them empty; every other string fails with
\* a format error.
C15_AcceptsOnlyOwnerAndRepo ==
    first # NoResult =>
        LET url == str_strip(input, Whitespace)
            rest == IF str_hasprefix(url, GITHUB_PREFIX)
                    THEN SubSeq(url, Len(GITHUB_PREFIX) + 1, Len(url))
                    ELSE <<>>
            segments == str_split(str_rstrip(rest, {"/"}), "/")
        IN  /\ first.kind \in {"ok", "ValidationError"}
            /\ first.kind = "ok" =>
                   /\ str_hasprefix(url, GITHUB_PREFIX)
                   /\ Len(segments) >= 2
                   /\ Len(segments[1]) > 0
                   /\ Len(segments[2]) > 0

-----------------------------------------------------------------------------
(* Properties of the tool calls *)

\* what the validators say when they raise ValidationError
C13_FormatRules ==
    { "project_id is required", "Invalid project_id format",
      "project_id cannot start with '-' or '.'",
      "project_id cannot be a reserved name",
      "filename is required", "filename cannot be empty after normalization",
      "Invalid filename format", "Empty path component in filename",
      "Reserved name in path", "Hidden directory not allowed",
      "File matches ignore pattern",
      "vendor_id is required", "vendor_id must be 1-64 characters",
      "repo_url is required", "repo_url must be an HTTPS GitHub URL",
      "repo_url must include owner and repo name",
      "snapshot_type is required", "Invalid snapshot_type" }

\* what the guard says when it raises SecurityError
C13_SecurityRules ==
    { "Forbidden pattern in filename", "Path traversal detected",
      "Symlink detected in path" }

\* C13: whatever the tool, a format error of a validator is answered with
\* validation_error and logged as a warning, and a security error of the
\* guard is answered with security_error and logged as an error; no handler
\* turns either into another kind.
C13_ErrorKindPreserved ==
    pc = "replied" =>
        /\ response.rule \in C13_FormatRules =>
               (response.error = "validation_error" /\ response.level = "warning")
        /\ response.rule \in C13_SecurityRules =>
               (response.error = "security_error" /\ response.level = "error")

\* an upload stopped by a symbolic link on the walk has been answered
C13_Witness ==
    /\ pc = "replied"
    /\ response.tool = "upload_to_staging"
    /\ response.rule = "Symlink detected in path"
    /\ response.error = "security_error"

\* C16: the repository is only ever called with no snapshot type or with
\* the trimmed, lowercased input, which is then one of the enumerated
\* types; any other non-empty input ends in a format error and no call on
\* the repository.
C16_OnlyEnumeratedTypes ==
    (pc = "replied" /\ response.tool = "query_snapshots") =>
        LET raw == req.snapshot_type
            normal == str_lower(str_strip(raw, Whitespace))
        IN  /\ response.repo # NoRepoCall =>
                   \/ Len(raw) = 0 /\ response.repo.snapshot_type = <<>>
                   \/ /\ Len(raw) > 0
                      /\ response.repo.snapshot_type = normal
                      /\ normal \in valid_types
            /\ (Len(raw) > 0 /\ normal \notin valid_types) =>
                   /\ response.kind = "ValidationError"
                   /\ response.repo = NoRepoCall

\* 'Security' has reached the repository as 'security'
C16_Witness ==
    /\ pc = "replied"
    /\ response.tool = "query_snapshots"
    /\ req.snapshot_type = <<"S","e","c","u","r","i","t","y">>
    /\ response.repo.snapshot_type = <<"s","e","c","u","r","i","t","y">>

\* C17: a step of the guard (validate_project_id, validate_filename,
\* get_safe_staging_path), whether it returns or raises, leaves the
\* filesystem as it found it.
C17_GuardLeavesFilesystem ==
    [][ ( /\ pc \in {"validate_project_id", "validate_filename",
                      "get_safe_staging_path"}
          /\ pc' # pc )
        => fs' = fs ]_vars

\* the guard has returned a path for a project whose staging directory does
\* not exist
C17_Witness ==
    /\ pc = "decode"
    /\ safe_path # NoPath
    /\ ~ Exists(fs, Append(staging_root, req.project_id))

\* C18: the message of a security error of get_safe_staging_path, as
\* call_tool hands it to the caller, quotes nothing but the caller's
\* filename after the rule it names: no path of the filesystem.
C18_MessageNamesNoPath ==
    ( /\ pc = "replied"
      /\ response.tool = "upload_to_staging"
      /\ response.error = "security_error" )
    => response.message \in {<<>>, req.filename}

====
